---------------------------- MODULE Spec2Model ----------------------------
(* A model of the Widevine license-exchange engine of src/src/lib.rs:      *)
(* one Session over one LicenseDecryptionModule, the certificate setters,  *)
(* create_license_request and parse_license.                               *)
(*                                                                         *)
(* Byte strings that the code slices or compares byte by byte (the PSSH    *)
(* box, the session id, the KDF labels) are sequences of 0..255.  Protocol *)
(* messages are kept at the tag level of the wire format: a serialized     *)
(* message is the sequence of its fields, each [num, wt, val].  The        *)
(* outputs of the cryptographic primitives are symbolic terms.             *)
(*                                                                         *)
(* A Rust panic (unwrap on Err/None, assert_eq!, a slice out of range) is  *)
(* the outcome "panic": the call returns no value.  A panic unwinds, so a  *)
(* session borrowed by &mut self is left as it was at the panic; a session *)
(* moved into parse_license is gone whatever the outcome.                  *)
EXTENDS Integers, Sequences, FiniteSets, TLC

(***************************************************************************)
(* Option<T>: None is the empty sequence, Some(x) the one-element one.     *)
(***************************************************************************)
None == <<>>
Some(x) == <<x>>
IsSome(o) == Len(o) = 1
IsNone(o) == Len(o) = 0
Unwrap(o) == o[1]

(***************************************************************************)
(* Program constants.                                                      *)
(***************************************************************************)
WIDEVINE_SYSTEM_ID ==
    <<237, 239, 139, 169, 121, 214, 74, 206, 163, 200, 39, 220, 213, 29, 33, 237>>

SERVICE_CERTIFICATE_CHALLANGE == <<8, 4>>

\* pssh[12..28] and pssh[32..]: the offsets create_license_request slices at.
PsshSystemIdStart == 12
PsshSystemIdEnd == 28
PsshDataStart == 32

\* Rust's half-open slice s[a..b] on a 0-based vector; the caller checks the range.
Slice(s, a, b) == SubSeq(s, a + 1, b)
SliceFrom(s, a) == SubSeq(s, a + 1, Len(s))

(***************************************************************************)
(* The wire format, byte level: what Message::decode does with a byte      *)
(* string before any schema is applied.  A field is a varint tag           *)
(* (number * 8 + wire type) followed by a varint (0), 8 bytes (1), a       *)
(* length-prefixed payload (2) or 4 bytes (5).                             *)
(***************************************************************************)
RECURSIVE ReadVarint(_, _, _, _, _)
\* Reads a varint of bytes b from position i (1-based); acc and mul carry the
\* value so far, n the bytes read (a varint has 10 bytes at most).
ReadVarint(b, i, acc, mul, n) ==
    IF i > Len(b) \/ n >= 10
    THEN [ok |-> FALSE, val |-> 0, next |-> i]
    ELSE IF b[i] < 128
         THEN [ok |-> TRUE, val |-> acc + b[i] * mul, next |-> i + 1]
         ELSE ReadVarint(b, i + 1, acc + (b[i] - 128) * mul, mul * 128, n + 1)

RECURSIVE WireFrames(_, _)
\* TRUE iff bytes b from position i on are a sequence of well-framed fields.
WireFrames(b, i) ==
    IF i > Len(b) THEN TRUE
    ELSE LET tag == ReadVarint(b, i, 0, 1, 0)
             num == tag.val \div 8
             wt  == tag.val % 8
         IN  IF ~tag.ok \/ num = 0 THEN FALSE
             ELSE CASE wt = 0 ->
                         LET v == ReadVarint(b, tag.next, 0, 1, 0)
                         IN  v.ok /\ WireFrames(b, v.next)
                    [] wt = 1 ->
                         tag.next + 8 <= Len(b) + 1 /\ WireFrames(b, tag.next + 8)
                    [] wt = 2 ->
                         LET l == ReadVarint(b, tag.next, 0, 1, 0)
                         IN  l.ok /\ l.next + l.val <= Len(b) + 1
                                  /\ WireFrames(b, l.next + l.val)
                    [] wt = 5 ->
                         tag.next + 4 <= Len(b) + 1 /\ WireFrames(b, tag.next + 4)
                    [] OTHER -> FALSE

\* license_protocol::WidevinePsshData::decode(bytes).is_ok()
WidevinePsshDataDecodes(b) == WireFrames(b, 1)

\* check_pssh: Ok -> true, Err -> false.  The caller guarantees Len(pssh) >= 32.
check_pssh(pssh) == WidevinePsshDataDecodes(SliceFrom(pssh, PsshDataStart))

(***************************************************************************)
(* PSSH boxes the caller may supply: size, 'pssh', version and flags, the  *)
(* system id, the data size, the data.                                     *)
(***************************************************************************)
PsshBox(system_id, data) ==
    <<0, 0, 0, 32 + Len(data)>> \o <<112, 115, 115, 104>> \o <<0, 0, 0, 0>>
        \o system_id \o <<0, 0, 0, Len(data)>> \o data

ZeroSystemId == [i \in 1..16 |-> 0]
\* The Widevine system id with its last byte altered.
NearSystemId == [WIDEVINE_SYSTEM_ID EXCEPT ![16] = 236]

\* algorithm = 1; key_ids = [AA BB]
GoodData1 == <<8, 1, 18, 2, 170, 187>>
\* a length-delimited field announcing 5 bytes with 1 present
TruncatedData == <<18, 5, 1>>
\* Boxes carrying the Widevine system id: with data that decodes, with no
\* data (a box of 32 bytes), with data that does not decode.
WidevinePsshs == {PsshBox(WIDEVINE_SYSTEM_ID, d) : d \in {GoodData1, <<>>, TruncatedData}}
\* Boxes of another system.
ForeignPsshs == {PsshBox(ZeroSystemId, GoodData1), PsshBox(NearSystemId, GoodData1)}
\* Boxes cut short: before the system id ends, and before the data starts.
ShortPsshs == {SubSeq(PsshBox(WIDEVINE_SYSTEM_ID, GoodData1), 1, n) : n \in {20, 30}}
Psshs == WidevinePsshs \cup ForeignPsshs \cup ShortPsshs

(***************************************************************************)
(* The wire format, tag level.  A serialized message is the sequence of    *)
(* its fields <<number, wire type, value>>: a varint field holds a number, *)
(* a length-delimited one a byte string, a nested message or the output of *)
(* a cryptographic primitive.                                              *)
(***************************************************************************)
Varint == 0
LengthDelimited == 2

Field(num, wt, val) == <<num, wt, val>>
\* An optional field is written when it is set.
Opt(num, wt, o) == IF IsSome(o) THEN <<Field(num, wt, Unwrap(o))>> ELSE <<>>

\* A byte string that is no message: its first tag has field number 0.
Malformed == <<Field(0, 7, 0)>>

ValidTag(f) == f[1] >= 1 /\ f[2] \in {0, 1, 2, 5}

\* Message::decode's framing and wire-type checks: a field the schema knows must
\* come with the wire type the schema gives it; a field it does not know is skipped.
WireDecodes(schema, wire) ==
    \A i \in 1..Len(wire) :
        /\ ValidTag(wire[i])
        /\ wire[i][1] \in DOMAIN schema => wire[i][2] = schema[wire[i][1]]

\* An optional field after decoding: the last occurrence wins.
LastOf(wire, num) ==
    LET idx == {i \in 1..Len(wire) : wire[i][1] = num}
    IN  IF idx = {} THEN None
        ELSE Some(wire[CHOOSE i \in idx : \A j \in idx : j <= i][3])

\* A repeated field after decoding: every occurrence, in order.
RECURSIVE AllOf(_, _)
AllOf(wire, num) ==
    IF Len(wire) = 0 THEN <<>>
    ELSE (IF Head(wire)[1] = num THEN <<Head(wire)[3]>> ELSE <<>>)
             \o AllOf(Tail(wire), num)

\* The accessor of an optional bytes field: the empty string when it is absent.
OrEmpty(o) == IF IsSome(o) THEN Unwrap(o) ELSE <<>>
\* The accessor of an optional string field.
OrEmptyString(o) == IF IsSome(o) THEN Unwrap(o) ELSE ""

(***************************************************************************)
(* Message schemas (field number -> wire type) and codecs.                 *)
(***************************************************************************)
\* signed_message::MessageType
LICENSE_REQUEST == 1
LICENSE == 2
SERVICE_CERTIFICATE == 5

\* SignedMessage { type = 1, msg = 2, signature = 3, session_key = 4 }
SignedMessageSchema == (1 :> Varint) @@ (2 :> LengthDelimited)
                           @@ (3 :> LengthDelimited) @@ (4 :> LengthDelimited)

EncodeSignedMessage(m) ==
    Opt(1, Varint, m.type) \o Opt(2, LengthDelimited, m.msg)
        \o Opt(3, LengthDelimited, m.signature) \o Opt(4, LengthDelimited, m.session_key)

DecodeSignedMessage(wire) ==
    IF WireDecodes(SignedMessageSchema, wire)
    THEN Some([type |-> LastOf(wire, 1), msg |-> LastOf(wire, 2),
               signature |-> LastOf(wire, 3), session_key |-> LastOf(wire, 4)])
    ELSE None

\* SignedDrmCertificate { drm_certificate = 1, signature = 2 }
SignedDrmCertificateSchema == (1 :> LengthDelimited) @@ (2 :> LengthDelimited)

EncodeSignedDrmCertificate(m) ==
    Opt(1, LengthDelimited, m.drm_certificate) \o Opt(2, LengthDelimited, m.signature)

DecodeSignedDrmCertificate(wire) ==
    IF WireDecodes(SignedDrmCertificateSchema, wire)
    THEN Some([drm_certificate |-> LastOf(wire, 1), signature |-> LastOf(wire, 2)])
    ELSE None

\* DrmCertificate { type = 1, serial_number = 2, creation_time_seconds = 3,
\*                  public_key = 4, provider_id = 7 }
DrmCertificateSchema == (1 :> Varint) @@ (2 :> LengthDelimited) @@ (3 :> Varint)
                            @@ (4 :> LengthDelimited) @@ (7 :> LengthDelimited)

EncodeDrmCertificate(m) ==
    Opt(1, Varint, m.type) \o Opt(2, LengthDelimited, m.serial_number)
        \o Opt(4, LengthDelimited, m.public_key) \o Opt(7, LengthDelimited, m.provider_id)

DecodeDrmCertificate(wire) ==
    IF WireDecodes(DrmCertificateSchema, wire)
    THEN Some([type |-> LastOf(wire, 1), serial_number |-> LastOf(wire, 2),
               public_key |-> LastOf(wire, 4), provider_id |-> LastOf(wire, 7)])
    ELSE None

\* ClientIdentification { type = 1, token = 2 }; fields the schema does not
\* know are dropped by decode and so are not written back by encode.
ClientIdentificationSchema == (1 :> Varint) @@ (2 :> LengthDelimited)

EncodeClientIdentification(m) ==
    Opt(1, Varint, m.type) \o Opt(2, LengthDelimited, m.token)

DecodeClientIdentification(wire) ==
    IF WireDecodes(ClientIdentificationSchema, wire)
    THEN Some([type |-> LastOf(wire, 1), token |-> LastOf(wire, 2)])
    ELSE None

\* license_request::RequestType, ProtocolVersion, LicenseType
RequestTypeNew == 1
ProtocolVersion21 == 21
LicenseTypeStreaming == 1

\* content_identification::WidevinePsshData
\*     { pssh_data = 1 (repeated), license_type = 2, request_id = 3 }
EncodeRequestPsshData(m) ==
    [i \in 1..Len(m.pssh_data) |-> Field(1, LengthDelimited, m.pssh_data[i])]
        \o Opt(2, Varint, m.license_type) \o Opt(3, LengthDelimited, m.request_id)

\* ContentIdentification { widevine_pssh_data = 1 }
EncodeContentIdentification(m) ==
    IF IsSome(m.content_id_variant)
    THEN <<Field(1, LengthDelimited, EncodeRequestPsshData(Unwrap(m.content_id_variant)))>>
    ELSE <<>>

\* EncryptedClientIdentification { provider_id = 1,
\*     service_certificate_serial_number = 2, encrypted_client_id = 3,
\*     encrypted_client_id_iv = 4, encrypted_privacy_key = 5 }
EncodeEncryptedClientIdentification(m) ==
    Opt(1, LengthDelimited, m.provider_id)
        \o Opt(2, LengthDelimited, m.service_certificate_serial_number)
        \o Opt(3, LengthDelimited, m.encrypted_client_id)
        \o Opt(4, LengthDelimited, m.encrypted_client_id_iv)
        \o Opt(5, LengthDelimited, m.encrypted_privacy_key)

\* LicenseRequest { client_id = 1, content_id = 2, type = 3, request_time = 4,
\*     protocol_version = 6, key_control_nonce = 7, encrypted_client_id = 8 }
EncodeLicenseRequest(m) ==
    (IF IsSome(m.client_id)
        THEN <<Field(1, LengthDelimited, EncodeClientIdentification(Unwrap(m.client_id)))>>
        ELSE <<>>)
        \o (IF IsSome(m.content_id)
            THEN <<Field(2, LengthDelimited, EncodeContentIdentification(Unwrap(m.content_id)))>>
            ELSE <<>>)
        \o Opt(3, Varint, m.type) \o Opt(4, Varint, m.request_time)
        \o Opt(6, Varint, m.protocol_version) \o Opt(7, Varint, m.key_control_nonce)
        \o (IF IsSome(m.encrypted_client_id)
            THEN <<Field(8, LengthDelimited,
                     EncodeEncryptedClientIdentification(Unwrap(m.encrypted_client_id)))>>
            ELSE <<>>)

\* license::key_container::KeyType and KeyType::as_str_name, as characters
KeyTypeName(t) ==
    CASE t = 1 -> <<"S", "I", "G", "N", "I", "N", "G">>
      [] t = 2 -> <<"C", "O", "N", "T", "E", "N", "T">>
      [] t = 3 -> <<"K", "E", "Y", "_", "C", "O", "N", "T", "R", "O", "L">>
      [] t = 4 -> <<"O", "P", "E", "R", "A", "T", "O", "R", "_",
                    "S", "E", "S", "S", "I", "O", "N">>
      [] t = 5 -> <<"E", "N", "T", "I", "T", "L", "E", "M", "E", "N", "T">>
      [] t = 6 -> <<"O", "E", "M", "_", "C", "O", "N", "T", "E", "N", "T">>
\* The accessor type(): the first variant when the field is absent or unknown.
KeyTypeOf(o) == IF IsSome(o) /\ Unwrap(o) \in 1..6 THEN Unwrap(o) ELSE 1

\* license::KeyContainer { id = 1, iv = 2, key = 3, type = 4 }
KeyContainerSchema == (1 :> LengthDelimited) @@ (2 :> LengthDelimited)
                          @@ (3 :> LengthDelimited) @@ (4 :> Varint)

EncodeKeyContainer(m) ==
    Opt(1, LengthDelimited, m.id) \o Opt(2, LengthDelimited, m.iv)
        \o Opt(3, LengthDelimited, m.key) \o Opt(4, Varint, m.type)

DecodeKeyContainer(wire) ==
    [id |-> LastOf(wire, 1), iv |-> LastOf(wire, 2),
     key |-> LastOf(wire, 3), type |-> LastOf(wire, 4)]

\* License { id = 1, policy = 2, key = 3 (repeated) }
LicenseSchema == (1 :> LengthDelimited) @@ (2 :> LengthDelimited)
                     @@ (3 :> LengthDelimited)

EncodeLicense(m) ==
    [i \in 1..Len(m.key) |-> Field(3, LengthDelimited, EncodeKeyContainer(m.key[i]))]

DecodeLicense(wire) ==
    LET keys == AllOf(wire, 3)
    IN  IF /\ WireDecodes(LicenseSchema, wire)
           /\ \A i \in 1..Len(keys) : WireDecodes(KeyContainerSchema, keys[i])
        THEN Some([key |-> [i \in 1..Len(keys) |-> DecodeKeyContainer(keys[i])]])
        ELSE None

\* hex::encode: two lower-case digits a byte.
HexDigits == <<"0", "1", "2", "3", "4", "5", "6", "7",
               "8", "9", "a", "b", "c", "d", "e", "f">>
RECURSIVE HexEncode(_)
HexEncode(bytes) ==
    IF Len(bytes) = 0 THEN <<>>
    ELSE <<HexDigits[(Head(bytes) \div 16) + 1], HexDigits[(Head(bytes) % 16) + 1]>>
             \o HexEncode(Tail(bytes))

(***************************************************************************)
(* Cryptographic primitives, symbolically.  An RSA key is named by its key *)
(* pair and carries its modulus size in bytes.                             *)
(***************************************************************************)
\* A PKCS#1 DER public key, and what Rsa::public_key_from_der_pkcs1 makes of it.
Pkcs1(pair, size) == <<"pkcs1", pair, size>>
DerParses(der) == Len(der) = 3 /\ der[1] = "pkcs1"

WIDEVINE_ROOT_PUBLIC_KEY == Pkcs1("widevine_root", 384)

\* RSA-PSS and RSA-OAEP with SHA-1 need a modulus of 2 * 20 + 2 bytes at least.
RsaFitsSha1(size) == size >= 2 * 20 + 2

\* Signer with MessageDigest::sha1, Padding::PKCS1_PSS, RsaPssSaltlen::custom(20).
RsaPssSign(pair, data, seed) == <<"RSA-PSS", "SHA1", 20, pair, seed, data>>
\* Verifier with the same digest, padding and salt length.
RsaPssVerify(pair, data, sig) ==
    Len(sig) = 6 /\ sig[1] = "RSA-PSS" /\ sig[2] = "SHA1" /\ sig[3] = 20 /\ sig[4] = pair /\ sig[6] = data

\* public_encrypt / private_decrypt with Padding::PKCS1_OAEP.
RsaOaepEncrypt(pair, plain, seed) == <<"RSA-OAEP", pair, seed, plain>>
RsaOaepDecrypts(pair, cipher) ==
    Len(cipher) = 4 /\ cipher[1] = "RSA-OAEP" /\ cipher[2] = pair

\* openssl::symm::encrypt / decrypt with Cipher::aes_128_cbc (PKCS#7 padding).
AesCbcEncrypt(key, iv, plain) == <<"AES-128-CBC", key, iv, plain>>
\* Under another key or iv the padding check fails.
AesCbcDecrypts(key, iv, cipher) ==
    Len(cipher) = 4 /\ cipher[1] = "AES-128-CBC" /\ cipher[2] = key /\ cipher[3] = iv

Cmac(key, data) == <<"AES-128-CMAC", key, data>>
HmacSha256(key, data) == <<"HMAC-SHA256", key, data>>

(***************************************************************************)
(* Service certificates the caller may supply.                             *)
(***************************************************************************)
DrmCertificateOf(pair, serial, provider) ==
    EncodeDrmCertificate([type |-> Some(3), serial_number |-> Some(serial),
                          public_key |-> Some(Pkcs1(pair, 256)),
                          provider_id |-> Some(provider)])

\* A SignedDrmCertificate over `cert` signed by key pair `signer`.
SignedBy(signer, cert) ==
    EncodeSignedDrmCertificate([drm_certificate |-> Some(cert),
                                signature |-> Some(RsaPssSign(signer, cert, 0))])

CommonDrmCertificate == DrmCertificateOf("common", <<23, 5>>, "license.widevine.com")
OtherDrmCertificate == DrmCertificateOf("castlabs", <<160, 220>>, "castlabs.com")

\* The bundled certificate: a SignedMessage of type SERVICE_CERTIFICATE (its
\* first bytes are 08 05 12 ..) around the root-signed SignedDrmCertificate.
COMMON_SERVICE_CERTIFICATE ==
    EncodeSignedMessage([type |-> Some(SERVICE_CERTIFICATE),
                         msg |-> Some(SignedBy("widevine_root", CommonDrmCertificate)),
                         signature |-> None, session_key |-> None])

RawCertificates ==
    << SignedBy("widevine_root", CommonDrmCertificate),
       SignedBy("widevine_root", OtherDrmCertificate),
       \* signed by a key that is not the root
       SignedBy("rogue", CommonDrmCertificate),
       \* a root signature over another certificate
       EncodeSignedDrmCertificate(
           [drm_certificate |-> Some(OtherDrmCertificate),
            signature |-> Some(RsaPssSign("widevine_root", CommonDrmCertificate, 0))]),
       \* no signature at all
       EncodeSignedDrmCertificate(
           [drm_certificate |-> Some(CommonDrmCertificate), signature |-> None]),
       COMMON_SERVICE_CERTIFICATE,
       Malformed >>

(***************************************************************************)
(* The device: LicenseDecryptionModule::new(private_key, blob, vmp_blob).  *)
(***************************************************************************)
GoodBlob == EncodeClientIdentification([type |-> Some(1), token |-> Some(<<170>>)])

NewLdm(pair, size, blob) ==
    [private_key |-> [pair |-> pair, size |-> size], identification_blob |-> blob]

\* A provisioned device, one whose identification blob is no ClientIdentification,
\* and one whose RSA modulus is too short for SHA-1 padding.
Ldms == << NewLdm("device", 256, GoodBlob),
           NewLdm("device", 256, Malformed),
           NewLdm("device", 32, GoodBlob) >>

(***************************************************************************)
(* Sources of randomness and time, bounded.                                *)
(***************************************************************************)
\* rand::thread_rng().gen::<[u8; 4]>() for the session id
MaxToken == 1
RandomTokens == {<<t, 0, 0, 7>> : t \in 0..MaxToken}
\* rand::thread_rng().gen::<u32>() for key_control_nonce
MaxNonce == 1
Nonces == 0..MaxNonce
\* current_time()
MaxTime == 0
Times == 0..MaxTime
\* rand::thread_rng().gen::<[u8; 16]>() for the privacy key and its iv
MaxPrivacyKey == 1
PrivacyKeys == {[i \in 1..16 |-> k] : k \in 0..MaxPrivacyKey}
PrivacyIvs == {[i \in 1..16 |-> 9]}

RECURSIVE to_le_bytes_BigEndian(_, _)
\* A faulty to_le_bytes: the most significant byte comes first.
to_le_bytes_BigEndian(v, n) ==
    IF n = 0 THEN <<>> ELSE to_le_bytes_BigEndian(v \div 256, n - 1) \o <<v % 256>>

RECURSIVE to_le_bytes(_, _)
\* The n low bytes of v, least significant first.
to_le_bytes(v, n) ==
    IF n = 0 THEN <<>> ELSE <<v % 256>> \o to_le_bytes(v \div 256, n - 1)

generate_session_token(random_bytes) ==
    random_bytes \o <<0, 0, 0, 0>> \o to_le_bytes(1, 8)

(***************************************************************************)
(* State.                                                                  *)
(***************************************************************************)
VARIABLES
    session_id,                  \* Session.session_id
    signed_service_certificate,  \* Session.signed_service_certificate: Option
    raw_lincese_request,         \* Session.raw_lincese_request: Option
    moved,                       \* the session was moved into parse_license
    ldm,                         \* the LicenseDecryptionModule the caller holds
    call,                        \* the last call on the session and its arguments
    ret,                         \* how it ended: [kind, error]
    out_request,                 \* Option: the bytes create_license_request returned
    out_keys,                    \* Option: the list parse_license returned
    requested,                   \* a create_license_request has returned Ok
    latest_request,              \* Option: the msg of the request returned last
    superseded,                  \* a returned request followed a different one
    sessions                     \* the sessions of two callers that share ldm

vars == <<session_id, signed_service_certificate, raw_lincese_request, moved, ldm,
          call, ret, out_request, out_keys, requested, latest_request, superseded,
          sessions>>

session == <<session_id, signed_service_certificate, raw_lincese_request>>

Ok == [kind |-> "ok", error |-> "none"]
Err(variant) == [kind |-> "err", error |-> variant]
Panic == [kind |-> "panic", error |-> "none"]

\* Session::new
Init ==
    /\ \E r \in RandomTokens : session_id = generate_session_token(r)
    /\ signed_service_certificate = None
    /\ raw_lincese_request = None
    /\ moved = FALSE
    /\ \E i \in 1..Len(Ldms) : ldm = Ldms[i]
    /\ call = [op |-> "new"]
    /\ ret = Ok
    /\ out_request = None
    /\ out_keys = None
    /\ requested = FALSE
    /\ latest_request = None
    /\ superseded = FALSE
    /\ sessions = <<>>

(***************************************************************************)
(* Service-certificate validation and pinning.                             *)
(***************************************************************************)
\* Ok(verified); the Err cases of the OpenSSL calls do not arise for the
\* constant root key and a byte-string signature.
verify_service_certificate(cert) ==
    RsaPssVerify(WIDEVINE_ROOT_PUBLIC_KEY[2], OrEmpty(cert.drm_certificate),
                 OrEmpty(cert.signature))

\* The error set_service_certificate returns when verification gives false.
UnverifiedError == Err("Internal")

\* A faulty Pins: the certificate is stored without looking at the verdict.
Pins_Unverified(cert) == TRUE

\* Whether a decoded certificate is stored on the session.
Pins(cert) == verify_service_certificate(cert)

\* A faulty SetServiceCertificate: the certificate is stored as soon as it is
\* decoded, before it is verified.
SetServiceCertificate_StoresFirst(raw, pinned) ==
    LET decoded == DecodeSignedDrmCertificate(raw)
    IN  IF IsNone(decoded) THEN [ret |-> Panic, cert |-> pinned]
        ELSE IF ~Pins(Unwrap(decoded))
             THEN [ret |-> UnverifiedError, cert |-> Some(Unwrap(decoded))]
             ELSE [ret |-> Ok, cert |-> Some(Unwrap(decoded))]

\* Session::set_service_certificate: [ret, cert], cert the field afterwards.
SetServiceCertificate(raw, pinned) ==
    LET decoded == DecodeSignedDrmCertificate(raw)
    IN  IF IsNone(decoded) THEN [ret |-> Panic, cert |-> pinned]
        ELSE IF ~Pins(Unwrap(decoded))
             THEN [ret |-> UnverifiedError, cert |-> pinned]
             ELSE [ret |-> Ok, cert |-> Some(Unwrap(decoded))]

\* set_default_service_certificate and set_service_certificate_from_message
\* unwrap the Result of set_service_certificate.
Unwrapped(r) == IF r.ret.kind = "ok" THEN r ELSE [r EXCEPT !.ret = Panic]

SetterFrame ==
    UNCHANGED <<session_id, raw_lincese_request, moved, ldm, requested,
                latest_request, superseded, sessions>>

set_service_certificate ==
    /\ ~moved
    /\ \E i \in 1..Len(RawCertificates) :
         LET r == SetServiceCertificate(RawCertificates[i], signed_service_certificate)
         IN  /\ call' = [op |-> "set_service_certificate", raw |-> RawCertificates[i]]
             /\ ret' = r.ret
             /\ signed_service_certificate' = r.cert
    /\ out_request' = None
    /\ out_keys' = None
    /\ SetterFrame

set_default_service_certificate ==
    /\ ~moved
    /\ LET r == Unwrapped(SetServiceCertificate(COMMON_SERVICE_CERTIFICATE,
                                                signed_service_certificate))
       IN  /\ call' = [op |-> "set_default_service_certificate"]
           /\ ret' = r.ret
           /\ signed_service_certificate' = r.cert
    /\ out_request' = None
    /\ out_keys' = None
    /\ SetterFrame

\* SignedMessages the caller may hand to set_service_certificate_from_message.
CertificateMessages ==
    << COMMON_SERVICE_CERTIFICATE,
       EncodeSignedMessage([type |-> Some(SERVICE_CERTIFICATE),
                            msg |-> Some(SignedBy("rogue", CommonDrmCertificate)),
                            signature |-> None, session_key |-> None]),
       EncodeSignedMessage([type |-> Some(LICENSE),
                            msg |-> Some(SignedBy("widevine_root", OtherDrmCertificate)),
                            signature |-> None, session_key |-> None]),
       EncodeSignedMessage([type |-> None,
                            msg |-> Some(SignedBy("widevine_root", OtherDrmCertificate)),
                            signature |-> None, session_key |-> None]),
       EncodeSignedMessage([type |-> Some(SERVICE_CERTIFICATE), msg |-> None,
                            signature |-> None, session_key |-> None]),
       SignedBy("widevine_root", CommonDrmCertificate),
       Malformed >>

\* A faulty SetServiceCertificateFromMessage: the message itself, not its msg
\* field, is given to set_service_certificate.
SetServiceCertificateFromMessage_WholeMessage(raw, pinned) ==
    Unwrapped(SetServiceCertificate(raw, pinned))

\* A faulty SetServiceCertificateFromMessage: only a message of type
\* SERVICE_CERTIFICATE is looked into.
SetServiceCertificateFromMessage_TypeGated(raw, pinned) ==
    LET decoded == DecodeSignedMessage(raw)
    IN  IF IsNone(decoded) THEN [ret |-> Panic, cert |-> pinned]
        ELSE IF Unwrap(decoded).type # Some(SERVICE_CERTIFICATE)
             THEN [ret |-> Panic, cert |-> pinned]
             ELSE Unwrapped(SetServiceCertificate(OrEmpty(Unwrap(decoded).msg), pinned))

\* Session::set_service_certificate_from_message: [ret, cert].
SetServiceCertificateFromMessage(raw, pinned) ==
    LET decoded == DecodeSignedMessage(raw)
    IN  IF IsNone(decoded) THEN [ret |-> Panic, cert |-> pinned]
        ELSE Unwrapped(SetServiceCertificate(OrEmpty(Unwrap(decoded).msg), pinned))

set_service_certificate_from_message ==
    /\ ~moved
    /\ \E i \in 1..Len(CertificateMessages) :
         LET r == SetServiceCertificateFromMessage(CertificateMessages[i],
                                                   signed_service_certificate)
         IN  /\ call' = [op |-> "set_service_certificate_from_message",
                         raw |-> CertificateMessages[i]]
             /\ ret' = r.ret
             /\ signed_service_certificate' = r.cert
    /\ out_request' = None
    /\ out_keys' = None
    /\ SetterFrame

(***************************************************************************)
(* create_license_request                                                  *)
(***************************************************************************)
\* assert_eq!(pssh[12..28], WIDEVINE_SYSTEM_ID) passes: the slice is in range
\* and equal.
SystemIdAsserted(pssh) ==
    /\ Len(pssh) >= PsshSystemIdEnd
    /\ Slice(pssh, PsshSystemIdStart, PsshSystemIdEnd) = WIDEVINE_SYSTEM_ID

\* A faulty PsshAccepted: the system id is not asserted.
PsshAccepted_NoSystemId(pssh) == Len(pssh) >= PsshDataStart

\* What create_license_request requires of the PSSH to go on: the assertion
\* on the system id, and pssh[32..] in range.  The bool check_pssh returns is
\* dropped.
PsshAccepted(pssh) ==
    /\ SystemIdAsserted(pssh)
    /\ Len(pssh) >= PsshDataStart

\* public_encrypt(&key, .., PKCS1_OAEP) succeeds: the plaintext fits the modulus.
OaepFits(size, plain) == RsaFitsSha1(size) /\ Len(plain) <= size - (2 * 20 + 2)

\* A faulty encrypte_client_identification: the iv is wrapped under the
\* certificate's key in place of the privacy key.
encrypte_client_identification_WrapsIv(client_identification, signed_cert, key, iv) ==
    LET decoded == DecodeDrmCertificate(OrEmpty(signed_cert.drm_certificate))
    IN  IF IsNone(decoded) THEN None
        ELSE LET service_certificate == Unwrap(decoded)
                 der == OrEmpty(service_certificate.public_key)
             IN  IF ~DerParses(der) \/ ~OaepFits(der[3], key) THEN None
                 ELSE Some(
                   [provider_id |->
                        Some(OrEmptyString(service_certificate.provider_id)),
                    service_certificate_serial_number |->
                        Some(OrEmpty(service_certificate.serial_number)),
                    encrypted_client_id |->
                        Some(AesCbcEncrypt(key, iv,
                                 EncodeClientIdentification(client_identification))),
                    encrypted_privacy_key |-> Some(RsaOaepEncrypt(der[2], iv, 0)),
                    encrypted_client_id_iv |-> Some(iv)])

\* encrypte_client_identification: None where one of its unwraps panics.
encrypte_client_identification(client_identification, signed_cert, key, iv) ==
    LET decoded == DecodeDrmCertificate(OrEmpty(signed_cert.drm_certificate))
    IN  IF IsNone(decoded) THEN None
        ELSE LET service_certificate == Unwrap(decoded)
                 der == OrEmpty(service_certificate.public_key)
             IN  IF ~DerParses(der) \/ ~OaepFits(der[3], key) THEN None
                 ELSE Some(
                   [provider_id |->
                        Some(OrEmptyString(service_certificate.provider_id)),
                    service_certificate_serial_number |->
                        Some(OrEmpty(service_certificate.serial_number)),
                    encrypted_client_id |->
                        Some(AesCbcEncrypt(key, iv,
                                 EncodeClientIdentification(client_identification))),
                    encrypted_privacy_key |-> Some(RsaOaepEncrypt(der[2], key, 0)),
                    encrypted_client_id_iv |-> Some(iv)])

\* A faulty BuildLicenseRequest: request_id is a token made for the request.
BuildLicenseRequest_FreshId(sid, pssh, now, nonce, client_id, encrypted_client_id) ==
    [content_id |-> Some([content_id_variant |-> Some(
                        [pssh_data |-> <<SliceFrom(pssh, PsshDataStart)>>,
                         license_type |-> Some(LicenseTypeStreaming),
                         request_id |-> Some(generate_session_token(
                                                 <<nonce, 0, 0, 7>>))])]),
     type |-> Some(RequestTypeNew),
     request_time |-> Some(now),
     protocol_version |-> Some(ProtocolVersion21),
     key_control_nonce |-> Some(nonce),
     client_id |-> client_id,
     encrypted_client_id |-> encrypted_client_id]

\* A faulty BuildLicenseRequest: pssh_data holds the whole box.
BuildLicenseRequest_WholeBox(sid, pssh, now, nonce, client_id, encrypted_client_id) ==
    [content_id |-> Some([content_id_variant |-> Some(
                        [pssh_data |-> <<pssh>>,
                         license_type |-> Some(LicenseTypeStreaming),
                         request_id |-> Some(sid)])]),
     type |-> Some(RequestTypeNew),
     request_time |-> Some(now),
     protocol_version |-> Some(ProtocolVersion21),
     key_control_nonce |-> Some(nonce),
     client_id |-> client_id,
     encrypted_client_id |-> encrypted_client_id]

\* The LicenseRequest message built from the session and the arguments.
BuildLicenseRequest(sid, pssh, now, nonce, client_id, encrypted_client_id) ==
    [content_id |-> Some([content_id_variant |-> Some(
                        [pssh_data |-> <<SliceFrom(pssh, PsshDataStart)>>,
                         license_type |-> Some(LicenseTypeStreaming),
                         request_id |-> Some(sid)])]),
     type |-> Some(RequestTypeNew),
     request_time |-> Some(now),
     protocol_version |-> Some(ProtocolVersion21),
     key_control_nonce |-> Some(nonce),
     client_id |-> client_id,
     encrypted_client_id |-> encrypted_client_id]

\* A faulty IdentityFields: client_id is set whether or not a certificate is
\* pinned.
IdentityFields_AlwaysClientId(client_identification, pinned, key, iv) ==
    IF IsSome(pinned)
    THEN LET e == encrypte_client_identification(client_identification,
                                                 Unwrap(pinned), key, iv)
         IN  IF IsNone(e) THEN None
             ELSE Some([client_id |-> Some(client_identification),
                        encrypted_client_id |-> e])
    ELSE Some([client_id |-> Some(client_identification), encrypted_client_id |-> None])

\* The identity fields of the request: encrypted_client_id under a pinned
\* certificate, client_id otherwise.  None where the encryption panics.
IdentityFields(client_identification, pinned, key, iv) ==
    IF IsSome(pinned)
    THEN LET e == encrypte_client_identification(client_identification,
                                                 Unwrap(pinned), key, iv)
         IN  IF IsNone(e) THEN None
             ELSE Some([client_id |-> None, encrypted_client_id |-> e])
    ELSE Some([client_id |-> Some(client_identification), encrypted_client_id |-> None])

\* A faulty CacheRequest: the cache is written only while it is empty.
CacheRequest_KeepFirst(raw_before, raw_license_request) ==
    IF IsSome(raw_before) THEN raw_before ELSE Some(raw_license_request)

\* The value of raw_lincese_request once the serialized request is known:
\* the cache is written before the request is signed.
CacheRequest(raw_before, raw_license_request) == Some(raw_license_request)

\* A faulty CreateLicenseRequest: while a request is cached, it is signed and
\* returned again in place of a new one.
CreateLicenseRequest_Resends(l, sid, pinned, raw_before, pssh, now, nonce, key, iv) ==
    LET unchanged == [ret |-> Panic, raw |-> raw_before, out |-> None]
    IN  IF ~PsshAccepted(pssh) THEN unchanged
        ELSE LET decoded == DecodeClientIdentification(l.identification_blob)
             IN  IF IsNone(decoded) THEN unchanged
                 ELSE LET ids == IdentityFields(Unwrap(decoded), pinned, key, iv)
                      IN  IF IsNone(ids) THEN unchanged
                          ELSE LET license_request ==
                                       BuildLicenseRequest(sid, pssh, now, nonce,
                                           Unwrap(ids).client_id,
                                           Unwrap(ids).encrypted_client_id)
                                   raw_license_request ==
                                       IF IsSome(raw_before) THEN Unwrap(raw_before)
                                       ELSE EncodeLicenseRequest(license_request)
                                   cached == CacheRequest(raw_before, raw_license_request)
                               IN  IF ~RsaFitsSha1(l.private_key.size)
                                   THEN [ret |-> Panic, raw |-> cached, out |-> None]
                                   ELSE [ret |-> Ok, raw |-> cached,
                                         out |-> Some(EncodeSignedMessage(
                                           [type |-> Some(LICENSE_REQUEST),
                                            msg |-> Some(raw_license_request),
                                            signature |-> Some(RsaPssSign(
                                                l.private_key.pair,
                                                raw_license_request, 0)),
                                            session_key |-> None]))]

\* Session::create_license_request: [ret, raw, out], raw the field
\* raw_lincese_request afterwards and out the bytes returned.
CreateLicenseRequest(l, sid, pinned, raw_before, pssh, now, nonce, key, iv) ==
    LET unchanged == [ret |-> Panic, raw |-> raw_before, out |-> None]
    IN  IF ~PsshAccepted(pssh) THEN unchanged
        ELSE LET decoded == DecodeClientIdentification(l.identification_blob)
             IN  IF IsNone(decoded) THEN unchanged
                 ELSE LET ids == IdentityFields(Unwrap(decoded), pinned, key, iv)
                      IN  IF IsNone(ids) THEN unchanged
                          ELSE LET license_request ==
                                       BuildLicenseRequest(sid, pssh, now, nonce,
                                           Unwrap(ids).client_id,
                                           Unwrap(ids).encrypted_client_id)
                                   raw_license_request ==
                                       EncodeLicenseRequest(license_request)
                                   cached == CacheRequest(raw_before, raw_license_request)
                               IN  IF ~RsaFitsSha1(l.private_key.size)
                                   THEN [ret |-> Panic, raw |-> cached, out |-> None]
                                   ELSE [ret |-> Ok, raw |-> cached,
                                         out |-> Some(EncodeSignedMessage(
                                           [type |-> Some(LICENSE_REQUEST),
                                            msg |-> Some(raw_license_request),
                                            signature |-> Some(RsaPssSign(
                                                l.private_key.pair,
                                                raw_license_request, 0)),
                                            session_key |-> None]))]

create_license_request ==
    /\ ~moved
    /\ \E pssh \in Psshs, now \in Times, nonce \in Nonces,
          key \in PrivacyKeys, iv \in PrivacyIvs :
         LET r == CreateLicenseRequest(ldm, session_id, signed_service_certificate,
                                       raw_lincese_request, pssh, now, nonce, key, iv)
         IN  /\ call' = [op |-> "create_license_request", pssh |-> pssh]
             /\ ret' = r.ret
             /\ raw_lincese_request' = r.raw
             /\ out_request' = r.out
             /\ requested' = (requested \/ r.ret.kind = "ok")
             /\ latest_request' = IF r.ret.kind = "ok" THEN LastOf(Unwrap(r.out), 2)
                                  ELSE latest_request
             /\ superseded' = (\/ superseded
                               \/ /\ r.ret.kind = "ok"
                                  /\ IsSome(latest_request)
                                  /\ latest_request # LastOf(Unwrap(r.out), 2))
    /\ out_keys' = None
    /\ UNCHANGED <<session_id, signed_service_certificate, moved, ldm, sessions>>

(***************************************************************************)
(* parse_license                                                           *)
(***************************************************************************)
\* b"ENCRYPTION\x00" and b"AUTHENTICATION\x00"
EncryptionLabel == <<69, 78, 67, 82, 89, 80, 84, 73, 79, 78, 0>>
AuthenticationLabel == <<65, 85, 84, 72, 69, 78, 84, 73, 67, 65, 84, 73, 79, 78, 0>>

encryption_key_base(raw_license_request) ==
    EncryptionLabel \o raw_license_request \o <<0, 0, 0, 128>>
authentication_key_base(raw_license_request) ==
    AuthenticationLabel \o raw_license_request \o <<0, 0, 2, 0>>

\* &decrypted_session_key[0..16] of a zeroed buffer the plaintext was written to.
SessionKeyOf(plain) == [i \in 1..16 |-> IF i <= Len(plain) THEN plain[i] ELSE 0]

\* A faulty DeriveKeys: both halves of the server key carry the counter 1.
DeriveKeys_SameCounter(session_key, raw_license_request) ==
    [encryption_key |->
         Cmac(session_key, <<1>> \o encryption_key_base(raw_license_request)),
     server_key |->
         << Cmac(session_key, <<1>> \o authentication_key_base(raw_license_request)),
            Cmac(session_key, <<1>> \o authentication_key_base(raw_license_request)) >>]

\* The three CMACs: the encryption key, and the server key part_1 || part_2.
DeriveKeys(session_key, raw_license_request) ==
    [encryption_key |->
         Cmac(session_key, <<1>> \o encryption_key_base(raw_license_request)),
     server_key |->
         << Cmac(session_key, <<1>> \o authentication_key_base(raw_license_request)),
            Cmac(session_key, <<2>> \o authentication_key_base(raw_license_request)) >>]

\* A faulty SignatureAsserted: the signatures are not compared.
SignatureAsserted_Skipped(calculated_signature, signature) == TRUE

\* assert_eq!(calculated_signature, signed_message.signature()) passes.
SignatureAsserted(calculated_signature, signature) == calculated_signature = signature

\* A faulty KeyId: the id is encoded whether or not it is empty.
KeyId_AlwaysHex(key_container) == HexEncode(OrEmpty(key_container.id))

\* The key id of an output entry.
KeyId(key_container) ==
    IF Len(OrEmpty(key_container.id)) > 0
    THEN HexEncode(OrEmpty(key_container.id))
    ELSE KeyTypeName(KeyTypeOf(key_container.type))

\* A faulty KeyContainers: each entry is put in front of the earlier ones.
KeyContainers_Reversed(license, encryption_key) ==
    IF \A i \in 1..Len(license.key) :
           AesCbcDecrypts(encryption_key, OrEmpty(license.key[i].iv),
                          OrEmpty(license.key[i].key))
    THEN Some([i \in 1..Len(license.key) |->
                 LET k == license.key[Len(license.key) + 1 - i]
                 IN  [kid |-> KeyId(k), key |-> HexEncode(Unwrap(k.key)[4])]])
    ELSE None

\* The loop over license.key: None where a decrypt panics.
KeyContainers(license, encryption_key) ==
    IF \A i \in 1..Len(license.key) :
           AesCbcDecrypts(encryption_key, OrEmpty(license.key[i].iv),
                          OrEmpty(license.key[i].key))
    THEN Some([i \in 1..Len(license.key) |->
                 [kid |-> KeyId(license.key[i]),
                  key |-> HexEncode(Unwrap(license.key[i].key)[4])]])
    ELSE None

\* A faulty RequestBytes: a session without a captured request derives its
\* keys from the empty request.
RequestBytes_OrEmpty(raw_request) == Some(OrEmpty(raw_request))

\* self.raw_lincese_request.unwrap(): None where it panics.
RequestBytes(raw_request) == raw_request

\* Session::parse_license: [ret, keys].
ParseLicense(l, raw_request, license_bytes) ==
    LET failed == [ret |-> Panic, keys |-> None]
        decoded == DecodeSignedMessage(license_bytes)
    IN  IF IsNone(decoded) THEN failed
        ELSE LET signed_message == Unwrap(decoded)
                 session_key == OrEmpty(signed_message.session_key)
             IN  IF \/ ~RsaFitsSha1(l.private_key.size)
                    \/ ~RsaOaepDecrypts(l.private_key.pair, session_key)
                 THEN failed
                 ELSE IF IsNone(RequestBytes(raw_request)) THEN failed
                 ELSE LET keys == DeriveKeys(SessionKeyOf(session_key[4]),
                                             Unwrap(RequestBytes(raw_request)))
                          msg == OrEmpty(signed_message.msg)
                      IN  IF ~SignatureAsserted(HmacSha256(keys.server_key, msg),
                                                OrEmpty(signed_message.signature))
                          THEN failed
                          ELSE LET license == DecodeLicense(msg)
                               IN  IF IsNone(license) THEN failed
                                   ELSE LET out == KeyContainers(Unwrap(license),
                                                                 keys.encryption_key)
                                        IN  IF IsNone(out) THEN failed
                                            ELSE [ret |-> Ok, keys |-> out]

(***************************************************************************)
(* The license server: what it sends back for a request it was given.      *)
(***************************************************************************)
ServerSessionKey == [i \in 1..16 |-> 3]
OtherSessionKey == [i \in 1..16 |-> 4]
ContentKey == [i \in 1..16 |-> 17]
SigningKey == [i \in 1..16 |-> 18]
KeyIv == [i \in 1..16 |-> 5]

ServerKenc(sk, lr) == Cmac(sk, <<1>> \o EncryptionLabel \o lr \o <<0, 0, 0, 128>>)
ServerKmac(sk, lr) ==
    << Cmac(sk, <<1>> \o AuthenticationLabel \o lr \o <<0, 0, 2, 0>>),
       Cmac(sk, <<2>> \o AuthenticationLabel \o lr \o <<0, 0, 2, 0>>) >>

WrappedKey(kenc, id, plain, type) ==
    [id |-> id, iv |-> Some(KeyIv), key |-> Some(AesCbcEncrypt(kenc, KeyIv, plain)),
     type |-> type]

\* The licenses a server issues under the encryption key kenc.
ServerLicense(n, kenc) ==
    EncodeLicense([key |->
        CASE n = 1 -> << WrappedKey(kenc, None, SigningKey, Some(1)),
                         WrappedKey(kenc, Some(<<171, 205>>), ContentKey, Some(2)) >>
          [] n = 2 -> << WrappedKey(kenc, Some(<<1, 35>>), ContentKey, None) >>
          [] n = 3 -> << >>
          \* a content key wrapped under another key
          [] n = 4 -> << WrappedKey(Cmac(OtherSessionKey, <<>>), Some(<<171, 205>>),
                                    ContentKey, Some(2)) >>
          \* keys without an id, and one whose id is present and empty
          [] n = 5 -> << WrappedKey(kenc, None, SigningKey, Some(3)),
                         WrappedKey(kenc, None, SigningKey, Some(4)),
                         WrappedKey(kenc, Some(<<>>), ContentKey, Some(5)),
                         WrappedKey(kenc, Some(<<>>), ContentKey, Some(6)) >>])

\* A request of another session, for responses not meant for this one.
ForeignRequest ==
    EncodeLicenseRequest(
        [content_id |-> None, type |-> Some(RequestTypeNew), request_time |-> Some(0),
         protocol_version |-> Some(ProtocolVersion21), key_control_nonce |-> Some(0),
         client_id |-> None, encrypted_client_id |-> None])

ResponseShapes ==
    { <<1, "genuine">>, <<2, "genuine">>, <<3, "genuine">>, <<4, "genuine">>,
      <<5, "genuine">>,
      <<1, "msg_altered">>, <<1, "signature_altered">>, <<1, "no_signature">>,
      <<1, "no_session_key">>, <<1, "other_device">>, <<1, "license_malformed">>,
      <<1, "not_a_message">> }

\* The response of shape <<n, how>> for the request lr, sent to the device
\* whose key pair is `pair`.
ServerResponse(pair, lr, shape) ==
    LET n == shape[1]
        how == shape[2]
        sk == ServerSessionKey
        license == ServerLicense(n, ServerKenc(sk, lr))
        msg == CASE how = "msg_altered" -> ServerLicense(2, ServerKenc(sk, lr))
                 [] how = "license_malformed" -> Malformed
                 [] OTHER -> license
        signature ==
            CASE how = "msg_altered" -> Some(HmacSha256(ServerKmac(sk, lr), license))
              [] how = "signature_altered" ->
                     Some(HmacSha256(ServerKmac(OtherSessionKey, lr), msg))
              [] how = "no_signature" -> None
              [] OTHER -> Some(HmacSha256(ServerKmac(sk, lr), msg))
        session_key ==
            CASE how = "no_session_key" -> None
              [] how = "other_device" -> Some(RsaOaepEncrypt("other_device", sk, 0))
              [] OTHER -> Some(RsaOaepEncrypt(pair, sk, 0))
    IN  IF how = "not_a_message" THEN Malformed
        ELSE EncodeSignedMessage([type |-> Some(LICENSE), msg |-> Some(msg),
                                  signature |-> signature, session_key |-> session_key])

\* A faulty MovedBy: parse_license borrows the session as the other methods do.
MovedBy_Borrowed(op) == FALSE

\* Whether a method takes the session by value: parse_license(self, ..) does,
\* the others take &mut self.  A session moved into a call cannot be named
\* again by the caller.
MovedBy(op) == op = "parse_license"

\* The request with another key_control_nonce, as another call on the
\* session makes it.
OtherNonce(lr) ==
    [i \in 1..Len(lr) |->
        IF lr[i][1] = 7 THEN Field(7, Varint, (lr[i][3] + 1) % (MaxNonce + 1))
        ELSE lr[i]]

\* The requests a response of a shape may have been made for: the one the
\* session holds and, for the genuine response, one of another session, none
\* at all, and one this session made with another nonce.
RequestsAnswered(shape) ==
    IF shape = <<1, "genuine">> THEN {"this", "foreign", "empty", "other_nonce"}
    ELSE {"this"}

parse_license ==
    /\ ~moved
    /\ \E shape \in ResponseShapes :
       \E for_request \in RequestsAnswered(shape) :
         LET lr == CASE for_request = "this" -> OrEmpty(raw_lincese_request)
                     [] for_request = "foreign" -> ForeignRequest
                     [] for_request = "empty" -> <<>>
                     [] for_request = "other_nonce" ->
                            OtherNonce(OrEmpty(raw_lincese_request))
             license == ServerResponse(ldm.private_key.pair, lr, shape)
             r == ParseLicense(ldm, raw_lincese_request, license)
         IN  /\ call' = [op |-> "parse_license", license |-> license]
             /\ ret' = r.ret
             /\ out_keys' = r.keys
    /\ moved' = MovedBy("parse_license")
    /\ out_request' = None
    /\ UNCHANGED <<session_id, signed_service_certificate, raw_lincese_request,
                   ldm, requested, latest_request, superseded, sessions>>

Next ==
    \/ set_service_certificate
    \/ set_default_service_certificate
    \/ set_service_certificate_from_message
    \/ create_license_request
    \/ parse_license

Spec == Init /\ [][Next]_vars

(***************************************************************************)
(* Two callers, each with a Session of its own, over one                   *)
(* LicenseDecryptionModule: every method takes its session as self and the *)
(* device as &LicenseDecryptionModule.                                     *)
(***************************************************************************)
SessionNames == {"A", "B"}

\* Clock readings of the two callers.
MaxSharedTime == 1
SharedTimes == 0..MaxSharedTime

\* The box, the certificate and the privacy key the two callers use.
SharedPsshs == {PsshBox(WIDEVINE_SYSTEM_ID, GoodData1)}
SharedCertificate == SignedBy("widevine_root", CommonDrmCertificate)
SharedPrivacyKey == [i \in 1..16 |-> 0]
SharedPrivacyIv == [i \in 1..16 |-> 9]

\* Session::new, with what the caller holds of its last call: the result, the
\* request returned with the PSSH, the clock reading and the random draws it
\* was made from, and whether the response parsed was the server's for the
\* request this session holds, with the keys returned.
NewSession(random_bytes) ==
    [session_id |-> generate_session_token(random_bytes),
     signed_service_certificate |-> None,
     raw_lincese_request |-> None,
     moved |-> FALSE,
     ret |-> Ok,
     out_request |-> None, pssh |-> None, now |-> None, rng |-> None,
     for_own_request |-> FALSE, out_keys |-> None]

\* What a caller holds after a call that returned no request and no keys.
NoOutput(me) ==
    [me EXCEPT !.out_request = None, !.pssh = None, !.now = None, !.rng = None,
               !.for_own_request = FALSE, !.out_keys = None]

InitShared ==
    /\ session_id = generate_session_token(<<0, 0, 0, 7>>)
    /\ signed_service_certificate = None
    /\ raw_lincese_request = None
    /\ moved = FALSE
    /\ ldm = Ldms[1]
    /\ call = [op |-> "new"]
    /\ ret = Ok
    /\ out_request = None
    /\ out_keys = None
    /\ requested = FALSE
    /\ latest_request = None
    /\ superseded = FALSE
    /\ \E random_bytes \in RandomTokens :
         sessions = [s \in SessionNames |->
                        IF s = "A" THEN NewSession(<<0, 0, 0, 7>>)
                        ELSE NewSession(random_bytes)]

\* A faulty Receiver: the session state lives in one place all callers share.
Receiver_Static(s) == "A"

\* The session a method called on session s reads and writes: self.
Receiver(s) == s

SharedFrame ==
    UNCHANGED <<session_id, signed_service_certificate, raw_lincese_request, moved,
                ldm, ret, out_request, out_keys, requested, latest_request,
                superseded>>

shared_set_service_certificate(s) ==
    /\ ~sessions[s].moved
    /\ LET me == sessions[s]
           r == SetServiceCertificate(SharedCertificate, me.signed_service_certificate)
       IN  sessions' = [sessions EXCEPT ![Receiver(s)] =
                           [NoOutput(me) EXCEPT !.signed_service_certificate = r.cert,
                                                !.ret = r.ret]]
    /\ call' = [op |-> "set_service_certificate", on |-> s]
    /\ SharedFrame

shared_create_license_request(s) ==
    /\ ~sessions[s].moved
    /\ \E pssh \in SharedPsshs, now \in SharedTimes, nonce \in Nonces :
         LET me == sessions[s]
             r == CreateLicenseRequest(ldm, me.session_id,
                      me.signed_service_certificate, me.raw_lincese_request, pssh,
                      now, nonce, SharedPrivacyKey, SharedPrivacyIv)
         IN  sessions' = [sessions EXCEPT ![Receiver(s)] =
                             [NoOutput(me) EXCEPT
                                 !.raw_lincese_request = r.raw,
                                 !.ret = r.ret,
                                 !.out_request = r.out,
                                 !.pssh = Some(pssh),
                                 !.now = Some(now),
                                 !.rng = Some(<<nonce, SharedPrivacyKey,
                                                SharedPrivacyIv>>)]]
    /\ call' = [op |-> "create_license_request", on |-> s]
    /\ SharedFrame

\* The response is the server's, for the request either session holds.
shared_parse_license(s) ==
    /\ ~sessions[s].moved
    /\ \E for \in SessionNames :
         LET me == sessions[s]
             license == ServerResponse(ldm.private_key.pair,
                            OrEmpty(sessions[for].raw_lincese_request),
                            <<1, "genuine">>)
             r == ParseLicense(ldm, me.raw_lincese_request, license)
         IN  sessions' = [sessions EXCEPT ![Receiver(s)] =
                             [NoOutput(me) EXCEPT !.moved = MovedBy("parse_license"),
                                                  !.ret = r.ret,
                                                  !.for_own_request =
                                                      (for = s \/
                                                       sessions[for].raw_lincese_request
                                                           = me.raw_lincese_request),
                                                  !.out_keys = r.keys]]
    /\ call' = [op |-> "parse_license", on |-> s]
    /\ SharedFrame

NextShared ==
    \E s \in SessionNames :
        \/ shared_set_service_certificate(s)
        \/ shared_create_license_request(s)
        \/ shared_parse_license(s)

SpecShared == InitShared /\ [][NextShared]_vars

(***************************************************************************)
(* Properties.                                                             *)
(***************************************************************************)
HasField(wire, num) == \E i \in 1..Len(wire) : wire[i][1] = num
ExactlyOneIdentity(lr) == HasField(lr, 1) # HasField(lr, 8)

CreateReturned == call.op = "create_license_request" /\ ret.kind = "ok"
\* The LicenseRequest bytes inside the SignedMessage create_license_request returned.
ReturnedRequest == Unwrap(LastOf(Unwrap(out_request), 2))

\* C1: every license request create_license_request produces carries exactly
\* one of client_id (field 1) and encrypted_client_id (field 8); the request it
\* returns carries encrypted_client_id iff a certificate is pinned at the call.
C1_CertificateBinding ==
    /\ IsSome(raw_lincese_request) => ExactlyOneIdentity(Unwrap(raw_lincese_request))
    /\ CreateReturned =>
         /\ ExactlyOneIdentity(ReturnedRequest)
         /\ HasField(ReturnedRequest, 8) <=> IsSome(signed_service_certificate)

C1_Witness ==
    /\ CreateReturned
    /\ IsSome(signed_service_certificate)
    /\ HasField(ReturnedRequest, 8) /\ ~HasField(ReturnedRequest, 1)

\* The call just made was set_service_certificate on bytes that decode and whose
\* signature does not verify under the root key.
SetUnverified(c) ==
    /\ c.op = "set_service_certificate"
    /\ IsSome(DecodeSignedDrmCertificate(c.raw))
    /\ ~verify_service_certificate(Unwrap(DecodeSignedDrmCertificate(c.raw)))

\* C2: a set_service_certificate whose certificate does not verify returns an
\* error value and leaves the pinned certificate as it was before the call.
C2_UnverifiedNotPinned ==
    [][SetUnverified(call') =>
          /\ ret'.kind = "err"
          /\ signed_service_certificate' = signed_service_certificate]_vars

C2_Witness ==
    /\ SetUnverified(call)
    /\ ret.kind = "err"
    /\ IsSome(signed_service_certificate)

\* C3: when verification returns false, the error set_service_certificate
\* returns is of kind Input.
C3_UnverifiedIsInput == SetUnverified(call) => ret = Err("Input")

\* The call just made was create_license_request on a PSSH whose bytes
\* [12..28) exist and are not the Widevine system id.
CreateOnForeignSystemId(c) ==
    /\ c.op = "create_license_request"
    /\ Len(c.pssh) >= PsshSystemIdEnd
    /\ Slice(c.pssh, PsshSystemIdStart, PsshSystemIdEnd) # WIDEVINE_SYSTEM_ID

\* C4: create_license_request on a PSSH of another system id returns an Input
\* error value.
C4_ForeignSystemIdIsInput == CreateOnForeignSystemId(call) => ret = Err("Input")

\* C5: a create_license_request that rejects the PSSH for its system id leaves
\* session_id, the pinned certificate and the captured request unchanged.
C5_GateLeavesSession ==
    [][CreateOnForeignSystemId(call') => session' = session]_vars

C5_Witness ==
    /\ CreateOnForeignSystemId(call)
    /\ ret.kind # "ok"
    /\ IsSome(raw_lincese_request)
    /\ IsSome(signed_service_certificate)

\* The call just made was create_license_request on a PSSH with the Widevine
\* system id whose bytes [32..) do not decode as WidevinePsshData.
CreateOnUndecodableData(c) ==
    /\ c.op = "create_license_request"
    /\ SystemIdAsserted(c.pssh)
    /\ Len(c.pssh) >= PsshDataStart
    /\ ~WidevinePsshDataDecodes(SliceFrom(c.pssh, PsshDataStart))

\* C6: create_license_request on a PSSH whose data does not decode yields an
\* Input error, and returns no request.
C6_UndecodableDataIsInput ==
    CreateOnUndecodableData(call) => ret = Err("Input") /\ IsNone(out_request)

\* The session key the last parse_license call decrypted, the calculated
\* signature and the one the response carries.
ParsedMessage == Unwrap(DecodeSignedMessage(call.license))
ParsedSessionKey == SessionKeyOf(OrEmpty(ParsedMessage.session_key)[4])
CalculatedSignature ==
    HmacSha256(ServerKmac(ParsedSessionKey, Unwrap(raw_lincese_request)),
               OrEmpty(ParsedMessage.msg))

\* parse_license came to compare the signatures.
ParseReachedSignature ==
    /\ call.op = "parse_license"
    /\ IsSome(DecodeSignedMessage(call.license))
    /\ RsaFitsSha1(ldm.private_key.size)
    /\ RsaOaepDecrypts(ldm.private_key.pair, OrEmpty(ParsedMessage.session_key))
    /\ IsSome(raw_lincese_request)

SignatureMismatch ==
    /\ ParseReachedSignature
    /\ CalculatedSignature # OrEmpty(ParsedMessage.signature)

\* C7: when the HMAC calculated over msg differs from the response's
\* signature, parse_license fails with an Input error value.
C7_MismatchIsInput == SignatureMismatch => ret = Err("Input")

\* C8: parse_license returns a key list only for a response whose signature
\* equals the HMAC-SHA-256 of its msg under the derived Kmac.
C8_NoKeysWithoutMac ==
    (call.op = "parse_license" /\ (ret.kind = "ok" \/ IsSome(out_keys))) =>
        /\ ParseReachedSignature
        /\ CalculatedSignature = OrEmpty(ParsedMessage.signature)

C8_Witness ==
    /\ call.op = "parse_license"
    /\ ret.kind = "ok"
    /\ IsSome(out_keys) /\ Len(Unwrap(out_keys)) = 2

\* C9: parse_license on a session that holds no captured request fails with
\* a State error value.
C9_NoRequestIsState ==
    (call.op = "parse_license" /\ IsNone(raw_lincese_request)) => ret = Err("State")

C11_ParseConsumes == [][call.op # "parse_license"]_vars

C11_Witness ==
    /\ call.op = "parse_license"
    /\ ret.kind = "panic"
    /\ moved
    /\ requested

\* C12: once a create_license_request has succeeded on the session, a further
\* create_license_request produces no request and leaves raw_lincese_request
\* as it was.
C12_SingleRequest ==
    [][(requested /\ call'.op = "create_license_request") =>
           /\ ret'.kind # "ok"
           /\ out_request' = None
           /\ raw_lincese_request' = raw_lincese_request]_vars

\* C13: after an operation on the session has failed, no later operation on
\* the session succeeds.
C13_FailuresTerminal == [][ret.kind # "ok" => ret'.kind # "ok"]_vars

\* C14: on a new session set_default_service_certificate succeeds and leaves
\* the bundled certificate pinned.
C14_DefaultCertificatePins ==
    [][(call.op = "new" /\ call'.op = "set_default_service_certificate") =>
           /\ ret'.kind = "ok"
           /\ IsSome(signed_service_certificate')]_vars

\* The bytes are a bare SignedDrmCertificate the Widevine root key signed.
RootSigned(raw) ==
    \/ raw = SignedBy("widevine_root", CommonDrmCertificate)
    \/ raw = SignedBy("widevine_root", OtherDrmCertificate)

\* The certificate the session holds is the one the bytes encode.
PinnedIs(raw) ==
    /\ ret.kind = "ok"
    /\ IsSome(signed_service_certificate)
    /\ EncodeSignedDrmCertificate(Unwrap(signed_service_certificate)) = raw

\* C15: set_service_certificate on a bare root-signed SignedDrmCertificate C
\* succeeds and pins C, and set_service_certificate_from_message on a
\* SignedMessage whose msg is C ends with the same certificate pinned.
C15_DualInputShapes ==
    /\ (call.op = "set_service_certificate" /\ RootSigned(call.raw)) =>
           PinnedIs(call.raw)
    /\ (/\ call.op = "set_service_certificate_from_message"
        /\ IsSome(DecodeSignedMessage(call.raw))
        /\ RootSigned(OrEmpty(Unwrap(DecodeSignedMessage(call.raw)).msg))) =>
           PinnedIs(OrEmpty(Unwrap(DecodeSignedMessage(call.raw)).msg))

C15_Witness ==
    /\ call.op = "set_service_certificate_from_message"
    /\ IsSome(DecodeSignedMessage(call.raw))
    /\ RootSigned(OrEmpty(Unwrap(DecodeSignedMessage(call.raw)).msg))
    /\ ret.kind = "ok"
    /\ IsSome(signed_service_certificate)

\* The signature field of the SignedMessage create_license_request returned.
ReturnedSignature == OrEmpty(LastOf(Unwrap(out_request), 3))

\* C16: after a successful create_license_request the session's cached
\* request bytes are the msg field of the returned SignedMessage and the bytes
\* the device's RSA-PSS signature was computed over.
C16_CapturedRequestBytes ==
    CreateReturned =>
        /\ IsSome(DecodeSignedMessage(Unwrap(out_request)))
        /\ raw_lincese_request = Some(ReturnedRequest)
        /\ ReturnedSignature =
               RsaPssSign(ldm.private_key.pair, Unwrap(raw_lincese_request), 0)

C16_Witness ==
    /\ CreateReturned
    /\ ~HasField(ReturnedRequest, 8)
    /\ LastOf(ReturnedRequest, 7) = Some(1)
    /\ raw_lincese_request = Some(ReturnedRequest)

\* The response is what the license server sends for the request the session
\* holds, to this device, around its license n.
GenuineResponse(n) ==
    /\ call.op = "parse_license"
    /\ IsSome(raw_lincese_request)
    /\ RsaFitsSha1(ldm.private_key.size)
    /\ call.license = ServerResponse(ldm.private_key.pair,
                                      Unwrap(raw_lincese_request), <<n, "genuine">>)

\* The keys of a license, as characters, once unwrapped.
PlainKeys(keys) == [i \in 1..Len(keys) |-> HexEncode(keys[i])]

\* C17: parse_license takes SK from the decrypted session key and LR from the
\* cached request, and uses Kenc = CMAC(SK, 01 "ENCRYPTION\0" LR 00000080) for
\* every content key and Kmac = CMAC(SK, 01 "AUTHENTICATION\0" LR 00000200) ||
\* CMAC(SK, 02 "AUTHENTICATION\0" LR 00000200) for the HMAC: it accepts exactly
\* the signature made under that Kmac, unwraps only keys wrapped under that
\* Kenc, and returns the keys of a response the server made that way.
C17_KdfFraming ==
    /\ (call.op = "parse_license" /\ ret.kind = "ok") =>
           LET lr == Unwrap(raw_lincese_request)
               keys == AllOf(OrEmpty(ParsedMessage.msg), 3)
           IN  /\ OrEmpty(ParsedMessage.signature) =
                      HmacSha256(ServerKmac(ParsedSessionKey, lr),
                                 OrEmpty(ParsedMessage.msg))
               /\ Len(Unwrap(out_keys)) = Len(keys)
               /\ \A i \in 1..Len(keys) :
                      Unwrap(LastOf(keys[i], 3))[2] = ServerKenc(ParsedSessionKey, lr)
    /\ GenuineResponse(1) =>
           /\ ret.kind = "ok"
           /\ [i \in 1..2 |-> Unwrap(out_keys)[i].key] =
                  PlainKeys(<<SigningKey, ContentKey>>)
    /\ GenuineResponse(2) =>
           /\ ret.kind = "ok"
           /\ [i \in 1..1 |-> Unwrap(out_keys)[i].key] = PlainKeys(<<ContentKey>>)

C17_Witness ==
    /\ GenuineResponse(1)
    /\ ret.kind = "ok"
    /\ Len(Unwrap(out_keys)) = 2
    /\ IsSome(signed_service_certificate)

\* WidevinePsshData.request_id of a serialized LicenseRequest.
RequestIdOf(lr) == LastOf(Unwrap(LastOf(Unwrap(LastOf(lr, 2)), 1)), 3)

\* C18: no operation on the session changes session_id, and every license
\* request the session creates carries request_id equal to session_id.
C18_SessionIdEchoed ==
    [][/\ session_id' = session_id
       /\ call'.op = "create_license_request" =>
            /\ IsSome(raw_lincese_request') =>
                   RequestIdOf(Unwrap(raw_lincese_request')) = Some(session_id)
            /\ IsSome(out_request') =>
                   RequestIdOf(Unwrap(LastOf(Unwrap(out_request'), 2)))
                       = Some(session_id)]_vars

C18_Witness ==
    /\ CreateReturned
    /\ session_id[1] = 1
    /\ LastOf(ReturnedRequest, 7) = Some(0)
    /\ RequestIdOf(ReturnedRequest) = Some(session_id)

\* C19: session_id is 16 bytes long, bytes [4..8) are zero and bytes [8..16)
\* are 01 00 00 00 00 00 00 00.
C19_SessionIdShape ==
    /\ Len(session_id) = 16
    /\ \A i \in 5..8 : session_id[i] = 0
    /\ session_id[9] = 1
    /\ \A i \in 10..16 : session_id[i] = 0

C19_Witness ==
    /\ call.op = "new"
    /\ session_id[1] = 1
    /\ session_id[4] = 7

\* The kid of the i-th key the call returned.
Kid(i) == Unwrap(out_keys)[i].kid

\* C20: the kid of an output key is the lower-case hex encoding of the
\* container's id when the id is non-empty, and the enum name of its type
\* otherwise.
C20_KeyNaming ==
    /\ (call.op = "parse_license" /\ ret.kind = "ok") =>
           LET keys == AllOf(OrEmpty(ParsedMessage.msg), 3)
           IN  \A i \in 1..Len(keys) :
                   IF Len(OrEmpty(LastOf(keys[i], 1))) > 0
                   THEN Kid(i) = HexEncode(Unwrap(LastOf(keys[i], 1)))
                   ELSE Kid(i) = KeyTypeName(KeyTypeOf(LastOf(keys[i], 4)))
    /\ GenuineResponse(1) =>
           /\ Kid(1) = <<"S", "I", "G", "N", "I", "N", "G">>
           /\ Kid(2) = <<"a", "b", "c", "d">>
    /\ GenuineResponse(2) => Kid(1) = <<"0", "1", "2", "3">>
    /\ GenuineResponse(5) =>
           /\ Kid(1) = <<"K", "E", "Y", "_", "C", "O", "N", "T", "R", "O", "L">>
           /\ Kid(2) = <<"O", "P", "E", "R", "A", "T", "O", "R", "_",
                          "S", "E", "S", "S", "I", "O", "N">>
           /\ Kid(3) = <<"E", "N", "T", "I", "T", "L", "E", "M", "E", "N", "T">>

C20_Witness ==
    /\ GenuineResponse(5)
    /\ ret.kind = "ok"
    /\ Len(Unwrap(out_keys)) = 4

\* C21: a successful parse_license returns one entry per KeyContainer of the
\* License, in the server's order: the i-th entry's key is the hex encoding
\* of the i-th ciphertext decrypted under Kenc and the i-th iv.
C21_KeyListOrder ==
    /\ (call.op = "parse_license" /\ ret.kind = "ok") =>
           LET keys == AllOf(OrEmpty(ParsedMessage.msg), 3)
               kenc == ServerKenc(ParsedSessionKey, Unwrap(raw_lincese_request))
           IN  /\ Len(Unwrap(out_keys)) = Len(keys)
               /\ \A i \in 1..Len(keys) :
                      LET cipher == Unwrap(LastOf(keys[i], 3))
                      IN  /\ cipher = AesCbcEncrypt(kenc, OrEmpty(LastOf(keys[i], 2)),
                                                    cipher[4])
                          /\ Unwrap(out_keys)[i].key = HexEncode(cipher[4])
    /\ GenuineResponse(1) =>
           out_keys = Some(<< [kid |-> <<"S", "I", "G", "N", "I", "N", "G">>,
                               key |-> HexEncode(SigningKey)],
                              [kid |-> <<"a", "b", "c", "d">>,
                               key |-> HexEncode(ContentKey)] >>)

C21_Witness ==
    /\ GenuineResponse(1)
    /\ ret.kind = "ok"
    /\ Len(Unwrap(out_keys)) = 2
    /\ IsNone(signed_service_certificate)

\* Both callers hold a request their last call returned, made on sessions
\* with the same session_id and pinned certificate, from the same PSSH and
\* the same random draws.
SameInputs(a, b) ==
    /\ IsSome(sessions[a].out_request)
    /\ IsSome(sessions[b].out_request)
    /\ sessions[a].session_id = sessions[b].session_id
    /\ sessions[a].signed_service_certificate = sessions[b].signed_service_certificate
    /\ sessions[a].pssh = sessions[b].pssh
    /\ sessions[a].rng = sessions[b].rng

C25_SessionsIndependent ==
    [][/\ ldm' = ldm
       /\ \A t \in SessionNames \ {call'.on} : sessions'[t] = sessions[t]
       /\ (call'.op = "parse_license" /\ sessions'[call'.on].ret.kind = "ok") =>
              /\ sessions'[call'.on].for_own_request
              /\ IsSome(sessions'[call'.on].out_keys)]_vars

C25_Witness ==
    /\ call.op = "parse_license"
    /\ call.on = "B"
    /\ sessions["B"].ret.kind = "ok"
    /\ IsSome(sessions["A"].raw_lincese_request)
    /\ sessions["A"].raw_lincese_request # sessions["B"].raw_lincese_request
    /\ ~sessions["A"].moved

\* Bytes the caller supplied did not decode as the message the call expects.
DecodeFailed ==
    \/ /\ call.op = "set_service_certificate"
       /\ IsNone(DecodeSignedDrmCertificate(call.raw))
    \/ /\ call.op = "set_service_certificate_from_message"
       /\ IsNone(DecodeSignedMessage(call.raw))
    \/ /\ call.op = "parse_license"
       /\ IsNone(DecodeSignedMessage(call.license))
    \/ /\ ParseReachedSignature
       /\ CalculatedSignature = OrEmpty(ParsedMessage.signature)
       /\ IsNone(DecodeLicense(OrEmpty(ParsedMessage.msg)))

\* C23: when caller-supplied bytes fail to decode, the operation returns an
\* Input error value.
C23_MalformedIsInput == DecodeFailed => ret = Err("Input")

\* A call of the cryptographic provider failed inside the operation: the
\* RSA-OAEP decryption of session_key, the unpadding of a content key, or
\* the signing of the request.
CryptoFailed ==
    \/ /\ call.op = "parse_license"
       /\ IsSome(DecodeSignedMessage(call.license))
       /\ \/ ~RsaFitsSha1(ldm.private_key.size)
          \/ ~RsaOaepDecrypts(ldm.private_key.pair, OrEmpty(ParsedMessage.session_key))
    \/ /\ ParseReachedSignature
       /\ CalculatedSignature = OrEmpty(ParsedMessage.signature)
       /\ IsSome(DecodeLicense(OrEmpty(ParsedMessage.msg)))
       /\ IsNone(KeyContainers(Unwrap(DecodeLicense(OrEmpty(ParsedMessage.msg))),
                     ServerKenc(ParsedSessionKey, Unwrap(raw_lincese_request))))
    \/ /\ call.op = "create_license_request"
       /\ PsshAccepted(call.pssh)
       /\ IsSome(DecodeClientIdentification(ldm.identification_blob))
       /\ ~RsaFitsSha1(ldm.private_key.size)
       /\ IsNone(signed_service_certificate)

\* C24: when a call of the cryptographic provider fails inside a session
\* operation, the operation returns a Crypto/OpenSSL error value.
C24_CryptoFailureIsError ==
    CryptoFailed => (ret.kind = "err" /\ ret.error \in {"OpenSSL", "Crypto"})

\* WidevinePsshData of a serialized LicenseRequest.
PsshDataOf(lr) == Unwrap(LastOf(Unwrap(LastOf(lr, 2)), 1))

\* C26: the message create_license_request returns is a SignedMessage of
\* type LICENSE_REQUEST (1) without session_key, whose signature is the
\* device key's RSA-PSS signature over msg and whose msg is a LicenseRequest
\* of type NEW (1) and protocol_version 21 with a content_id holding
\* WidevinePsshData of license_type STREAMING (1) and pssh_data = [pssh[32..]].
C26_RequestConstruction ==
    CreateReturned =>
        LET sm == Unwrap(out_request)
            lr == ReturnedRequest
        IN  /\ LastOf(sm, 1) = Some(1)
            /\ ~HasField(sm, 4)
            /\ LastOf(sm, 3) = Some(RsaPssSign(ldm.private_key.pair, lr, 0))
            /\ LastOf(lr, 3) = Some(1)
            /\ LastOf(lr, 6) = Some(21)
            /\ LastOf(PsshDataOf(lr), 2) = Some(1)
            /\ AllOf(PsshDataOf(lr), 1) = <<SubSeq(call.pssh, 33, Len(call.pssh))>>

C26_Witness ==
    /\ CreateReturned
    /\ call.pssh = PsshBox(WIDEVINE_SYSTEM_ID, TruncatedData)
    /\ AllOf(PsshDataOf(ReturnedRequest), 1) = <<TruncatedData>>

\* EncryptedClientIdentification of the request returned.
ReturnedEncryptedClientId == Unwrap(LastOf(ReturnedRequest, 8))
\* The DrmCertificate inside the pinned certificate.
PinnedDrmCertificate ==
    Unwrap(DecodeDrmCertificate(
        OrEmpty(Unwrap(signed_service_certificate).drm_certificate)))

C28_PinnedImpliesVerified ==
    IsSome(signed_service_certificate) =>
        LET cert == Unwrap(signed_service_certificate)
        IN  /\ IsSome(cert.drm_certificate)
            /\ OrEmpty(cert.signature) =
                   <<"RSA-PSS", "SHA1", 20, "widevine_root", 0, Unwrap(cert.drm_certificate)>>

C28_Witness ==
    /\ call.op = "set_service_certificate"
    /\ IsSome(DecodeSignedDrmCertificate(call.raw))
    /\ ret.kind = "err"
    /\ IsSome(signed_service_certificate)

\* A certificate setter was called.
SetterCalled(c) ==
    c.op \in {"set_service_certificate", "set_default_service_certificate",
              "set_service_certificate_from_message"}

\* C29: once create_license_request has run on the session, a certificate
\* setter call does not succeed and does not change the pinned certificate.
C29_PinningOnlyBeforeRequest ==
    [][(requested /\ SetterCalled(call')) =>
           /\ ret'.kind # "ok"
           /\ signed_service_certificate' = signed_service_certificate]_vars

\* The response is the server's, to this device, for the request `lr`.
ResponseFor(lr) ==
    call.license = ServerResponse(ldm.private_key.pair, lr, <<1, "genuine">>)

C31_ShortPsshIsError ==
    [][(call'.op = "create_license_request" /\ Len(call'.pssh) < 32) =>
           /\ ret'.kind = "err"
           /\ session' = session]_vars

\* The values of SignedMessage.type tried: absent, LICENSE_REQUEST, LICENSE,
\* SERVICE_CERTIFICATE.
MessageTypes == <<None, Some(1), Some(2), Some(5)>>

RECURSIVE WithoutType(_)
\* The message without its type field.
WithoutType(wire) ==
    IF Len(wire) = 0 THEN <<>>
    ELSE (IF Head(wire)[1] = 1 THEN <<>> ELSE <<Head(wire)>>) \o WithoutType(Tail(wire))

\* The same message with type t.
WithType(wire, t) == Opt(1, Varint, t) \o WithoutType(wire)

\* Field 1 of the bytes, where present, is a varint: the bytes have a type.
TypeWellFormed(wire) == \A i \in 1..Len(wire) : wire[i][1] = 1 => wire[i][2] = Varint

\* C32: the result and the session state after
\* set_service_certificate_from_message and parse_license are what they are
\* for the same message with any other type field, or none.
C32_TypeIsNoGate ==
    [][/\ (call'.op = "set_service_certificate_from_message"
           /\ TypeWellFormed(call'.raw)) =>
              \A i \in 1..Len(MessageTypes) :
                  SetServiceCertificateFromMessage(
                      WithType(call'.raw, MessageTypes[i]), signed_service_certificate)
                  = [ret |-> ret', cert |-> signed_service_certificate']
       /\ (call'.op = "parse_license" /\ TypeWellFormed(call'.license)) =>
              \A i \in 1..Len(MessageTypes) :
                  /\ ParseLicense(ldm, raw_lincese_request,
                                  WithType(call'.license, MessageTypes[i]))
                     = [ret |-> ret', keys |-> out_keys']
                  /\ session' = session]_vars

C32_Witness ==
    /\ call.op = "set_service_certificate_from_message"
    /\ LastOf(call.raw, 1) = Some(2)
    /\ ret.kind = "ok"
    /\ IsSome(signed_service_certificate)

=============================================================================
